---- MODULE Spec2Model ----
(***************************************************************************)
(* Occupancy engine (src/src/occupancy_manager/engine.py): a hierarchy of  *)
(* locations, each with a runtime state, driven by handle_event and        *)
(* check_timeouts.  Time is an integer number of minutes; an absent        *)
(* datetime / timedelta is None, an absent occupant_id is NoOccupant.      *)
(***************************************************************************)
EXTENDS Integers, Sequences, FiniteSets, TLC

VARIABLES configs,          \* list[LocationConfig] given to the constructor
          state,            \* self.state: location id -> LocationRuntimeState
          op,               \* the public method called last
          now,              \* the `now` of the last call
          next_expiration   \* EngineResult.next_expiration of the last call

vars == <<configs, state, op, now, next_expiration>>

\* ------------------------------------------------------------------ bounds
MaxTime == 2

\* ------------------------------------------------------- model.py values
None == -1
NoOccupant == ""

UNLOCKED == "unlocked"
LOCKED_FROZEN == "locked_frozen"

INDEPENDENT == "independent"
FOLLOW_PARENT == "follow_parent"

MOMENTARY == "momentary"
HOLD_START == "hold_start"
HOLD_END == "hold_end"
MANUAL == "manual"
LOCK_CHANGE == "lock_change"
PROPAGATED == "propagated"

NoParent == ""

LocationConfig(id, parent_id, occupancy_strategy, contributes_to_parent, timeouts) ==
    [id |-> id, parent_id |-> parent_id,
     occupancy_strategy |-> occupancy_strategy,
     contributes_to_parent |-> contributes_to_parent,
     timeouts |-> timeouts]

LocationRuntimeState(is_occupied, occupied_until, active_occupants, active_holds, lock_state) ==
    [is_occupied |-> is_occupied, occupied_until |-> occupied_until,
     active_occupants |-> active_occupants, active_holds |-> active_holds,
     lock_state |-> lock_state]

DefaultState == LocationRuntimeState(FALSE, None, {}, {}, UNLOCKED)

OccupancyEvent(location_id, event_type, category, source_id, timestamp, occupant_id, duration) ==
    [location_id |-> location_id, event_type |-> event_type,
     category |-> category, source_id |-> source_id, timestamp |-> timestamp,
     occupant_id |-> occupant_id, duration |-> duration]

NoEvent == [event_type |-> "none"]

StateTransition(location_id, previous_state, new_state, reason) ==
    [location_id |-> location_id, previous_state |-> previous_state,
     new_state |-> new_state, reason |-> reason]

\* ------------------------------------------------------------ topology
\* self.configs: the dict {c.id: c}; a later config with the same id wins.
ConfigIds == {configs[i].id : i \in 1..Len(configs)}

ConfigOf(location_id) ==
    LET last == CHOOSE i \in 1..Len(configs) :
                    /\ configs[i].id = location_id
                    /\ \A j \in (i+1)..Len(configs) : configs[j].id # location_id
    IN configs[last]

\* The keys of self.configs in iteration (first insertion) order.
RECURSIVE ConfigOrderFrom(_)
ConfigOrderFrom(i) ==
    IF i > Len(configs) THEN <<>>
    ELSE IF \E j \in 1..(i-1) : configs[j].id = configs[i].id
         THEN ConfigOrderFrom(i + 1)
         ELSE <<configs[i].id>> \o ConfigOrderFrom(i + 1)

ConfigOrder == ConfigOrderFrom(1)

\* self.children_map[parent_id], in constructor order.
RECURSIVE ChildrenFrom(_, _)
ChildrenFrom(parent_id, i) ==
    IF i > Len(configs) THEN <<>>
    ELSE IF configs[i].parent_id # NoParent /\ configs[i].parent_id = parent_id
         THEN <<configs[i].id>> \o ChildrenFrom(parent_id, i + 1)
         ELSE ChildrenFrom(parent_id, i + 1)

children_map(parent_id) == ChildrenFrom(parent_id, 1)

\* ------------------------------------------------------------- _get_timeout
GetTimeout(category, location_id) ==
    IF location_id \in ConfigIds
    THEN LET config == ConfigOf(location_id)
         IN IF category \in DOMAIN config.timeouts THEN config.timeouts[category]
            ELSE IF "default" \in DOMAIN config.timeouts THEN config.timeouts["default"]
            ELSE 10
    ELSE 10

\* `event.duration if event.duration else timedelta(minutes=timeout_minutes)`:
\* a zero timedelta is falsy.
TimeoutDelta(ev, location_id) ==
    IF ev.duration # None /\ ev.duration # 0
    THEN ev.duration
    ELSE GetTimeout(ev.category, location_id)

\* Mutant: the timer is always reset to the new expiry.
ResetTimer(next_occupied_until, calculated_expiry) == calculated_expiry

\* `if next is None or calculated_expiry > next: next = calculated_expiry`
ExtendTimer(next_occupied_until, calculated_expiry) ==
    IF next_occupied_until = None \/ calculated_expiry > next_occupied_until
    THEN calculated_expiry
    ELSE next_occupied_until

\* --------------------------------------------------------- _evaluate_state
\* Mutant: the lock gate lets re-evaluation ticks through.
LockGateRejectsEventsOnly(current_state, ev) ==
    /\ current_state.lock_state = LOCKED_FROZEN
    /\ ev # NoEvent
    /\ ev.event_type \notin {MANUAL, LOCK_CHANGE}

\* Mutant: the lock gate admits LOCK_CHANGE events only.
LockGateAdmitsLockChangeOnly(current_state, ev) ==
    /\ current_state.lock_state = LOCKED_FROZEN
    /\ \/ ev = NoEvent
       \/ ev.event_type # LOCK_CHANGE

\* Mutant: the lock gate also admits PROPAGATED events.
LockGateAdmitsPropagated(current_state, ev) ==
    /\ current_state.lock_state = LOCKED_FROZEN
    /\ \/ ev = NoEvent
       \/ ev.event_type \notin {MANUAL, LOCK_CHANGE, PROPAGATED}

\* A. Lock Check
LockGateRejects(current_state, ev) ==
    /\ current_state.lock_state = LOCKED_FROZEN
    /\ \/ ev = NoEvent
       \/ ev.event_type \notin {MANUAL, LOCK_CHANGE}

\* Mutant: every event toggles the lock.
NextLockStateAnyEvent(current_state, ev) ==
    IF ev # NoEvent
    THEN IF current_state.lock_state = LOCKED_FROZEN THEN UNLOCKED ELSE LOCKED_FROZEN
    ELSE current_state.lock_state

\* B.1 Handle Locking
NextLockState(current_state, ev) ==
    IF ev # NoEvent /\ ev.event_type = LOCK_CHANGE
    THEN IF current_state.lock_state = LOCKED_FROZEN THEN UNLOCKED ELSE LOCKED_FROZEN
    ELSE current_state.lock_state

\* B.2 Handle Identity
NextOccupants(current_state, ev) ==
    IF ev # NoEvent /\ ev.occupant_id # NoOccupant
    THEN IF ev.event_type = HOLD_END
         THEN current_state.active_occupants \ {ev.occupant_id}
         ELSE current_state.active_occupants \cup {ev.occupant_id}
    ELSE current_state.active_occupants

\* Mutant: a HOLD_START from a source that already holds releases it.
NextHoldsToggle(current_state, ev) ==
    IF ev = NoEvent THEN current_state.active_holds
    ELSE IF ev.event_type = HOLD_START
    THEN IF ev.source_id \in current_state.active_holds
         THEN current_state.active_holds \ {ev.source_id}
         ELSE current_state.active_holds \cup {ev.source_id}
    ELSE IF ev.event_type = HOLD_END THEN current_state.active_holds \ {ev.source_id}
    ELSE current_state.active_holds

\* B.3 Handle Holds
NextHolds(current_state, ev) ==
    IF ev = NoEvent THEN current_state.active_holds
    ELSE IF ev.event_type = HOLD_START THEN current_state.active_holds \cup {ev.source_id}
    ELSE IF ev.event_type = HOLD_END THEN current_state.active_holds \ {ev.source_id}
    ELSE current_state.active_holds

\* Mutant: every HOLD_END starts the trailing timer.
NextOccupiedUntilEveryRelease(current_state, ev, location_id, t) ==
    IF ev = NoEvent THEN current_state.occupied_until
    ELSE IF ev.event_type \in {MANUAL, MOMENTARY, PROPAGATED}
    THEN ExtendTimer(current_state.occupied_until, t + TimeoutDelta(ev, location_id))
    ELSE IF ev.event_type = HOLD_END
    THEN t + TimeoutDelta(ev, location_id)
    ELSE current_state.occupied_until

\* B.4 / B.5 Manual override and timer logic
NextOccupiedUntil(current_state, ev, location_id, t) ==
    IF ev = NoEvent THEN current_state.occupied_until
    ELSE IF ev.event_type \in {MANUAL, MOMENTARY, PROPAGATED}
    THEN ExtendTimer(current_state.occupied_until, t + TimeoutDelta(ev, location_id))
    ELSE IF ev.event_type = HOLD_END
    THEN IF NextHolds(current_state, ev) = {} /\ current_state.active_holds # {}
         THEN t + TimeoutDelta(ev, location_id)
         ELSE current_state.occupied_until
    ELSE current_state.occupied_until

\* C.4 Strategy: FOLLOW_PARENT -- the parent state that is followed, if any.
FollowsOccupiedParent(st, config) ==
    /\ config.occupancy_strategy = FOLLOW_PARENT
    /\ config.parent_id # NoParent
    /\ config.parent_id \in DOMAIN st
    /\ st[config.parent_id].is_occupied

\* Mutant: only a parent's holds make it held.
ParentHasHolds(st, config) == st[config.parent_id].active_holds # {}

ParentIsHeld(st, config) ==
    \/ st[config.parent_id].active_holds # {}
    \/ st[config.parent_id].active_occupants # {}

\* Mutant: holds and occupants count only while no timer has been set.
IsOccupiedCandidateTimerFirst(st, config, next_occupied_until, next_holds, next_occupants, t) ==
    \/ (next_occupied_until # None /\ next_occupied_until > t)
    \/ (next_occupied_until = None /\ (next_holds # {} \/ next_occupants # {}))
    \/ FollowsOccupiedParent(st, config)

\* Mutant: a timer that ends exactly now still counts.
IsOccupiedCandidateInclusive(st, config, next_occupied_until, next_holds, next_occupants, t) ==
    \/ (next_occupied_until # None /\ next_occupied_until >= t)
    \/ next_holds # {}
    \/ next_occupants # {}
    \/ FollowsOccupiedParent(st, config)

\* C. Determine Occupancy Status
IsOccupiedCandidate(st, config, next_occupied_until, next_holds, next_occupants, t) ==
    \/ (next_occupied_until # None /\ next_occupied_until > t)
    \/ next_holds # {}
    \/ next_occupants # {}
    \/ FollowsOccupiedParent(st, config)

\* Mutant: the vacancy cleanup is skipped.
NoVacancyCleanup(next_state) == next_state

\* D. Vacancy Cleanup
VacancyCleanup(next_state) ==
    IF next_state.is_occupied THEN next_state
    ELSE [next_state EXCEPT !.occupied_until = None,
                            !.active_occupants = {},
                            !.active_holds = {}]

\* B-D: the candidate next state of a location that passed the lock gate.
CandidateState(st, location_id, ev, t) ==
    LET config == ConfigOf(location_id)
        current_state == st[location_id]
        next_occupants == NextOccupants(current_state, ev)
        next_holds == NextHolds(current_state, ev)
        timer == NextOccupiedUntil(current_state, ev, location_id, t)
        next_lock_state == NextLockState(current_state, ev)
        is_occupied_candidate ==
            IsOccupiedCandidate(st, config, timer, next_holds, next_occupants, t)
        next_occupied_until ==
            IF FollowsOccupiedParent(st, config) /\ ParentIsHeld(st, config)
            THEN None ELSE timer
    IN VacancyCleanup(LocationRuntimeState(is_occupied_candidate,
           next_occupied_until, next_occupants, next_holds, next_lock_state))

\* Returns the new state of the location and whether it changed (E. Commit).
EvaluateState(st, location_id, ev, t) ==
    LET current_state == st[location_id]
    IN IF LockGateRejects(current_state, ev)
       THEN [changed |-> FALSE, new_state |-> current_state]
       ELSE LET new_state == CandidateState(st, location_id, ev, t)
            IN [changed |-> new_state # current_state, new_state |-> new_state]

\* ------------------------------------------------- _process_location_update
\* The engine while a call runs: self.state, the transitions list the call
\* appends to, the evaluations made so far, and whether a KeyError has been
\* raised (self.configs[location_id] for an id that is not configured),
\* which ends the call at once and leaves self.state as it is by then.
Engine(st) == [state |-> st, transitions |-> <<>>, evals |-> <<>>,
               raised |-> FALSE]

\* Mutant: contributes_to_parent is not consulted.
ShouldPropagateAlwaysContributes(config, new_state) ==
    /\ config.parent_id # NoParent
    /\ (new_state.is_occupied \/ new_state.active_occupants # {})

\* Mutant: vacancy is propagated too.
ShouldPropagateVacancy(config, new_state) ==
    /\ config.parent_id # NoParent
    /\ config.contributes_to_parent

\* Mutant: only identity is propagated, occupancy is not.
ShouldPropagateOccupantsOnly(config, new_state) ==
    /\ config.parent_id # NoParent
    /\ config.contributes_to_parent
    /\ new_state.active_occupants # {}

\* 2. Upward propagation: `new_state.is_occupied or new_state.active_occupants`
ShouldPropagate(config, new_state) ==
    /\ config.parent_id # NoParent
    /\ config.contributes_to_parent
    /\ (new_state.is_occupied \/ new_state.active_occupants # {})

\* Mutant: the child is passed up as a hold on the parent.
ParentEventAsHold(config, location_id, t) ==
    OccupancyEvent(config.parent_id, HOLD_START, "propagated", location_id, t,
                   NoOccupant, None)

\* The synthetic event sent to the parent.
ParentEvent(config, location_id, t) ==
    OccupancyEvent(config.parent_id, PROPAGATED, "propagated", location_id, t,
                   NoOccupant, None)

\* 1. Evaluate this location and commit (engine.py E. Commit State).
\* Each evaluation is recorded: the location, the event (NoEvent for a
\* re-evaluation tick), via = the location whose change triggered it ("" for
\* the caller's own event or sweep), the state map before and the
\* location's state after.
Commit(eng, location_id, ev, t, via) ==
    LET r == EvaluateState(eng.state, location_id, ev, t)
        current_state == eng.state[location_id]
        entry == [location_id |-> location_id, event |-> ev, via |-> via,
                  before |-> eng.state, after |-> r.new_state,
                  changed |-> r.changed]
    IN IF r.changed
       THEN [state |-> [eng.state EXCEPT ![location_id] = r.new_state],
             transitions |-> Append(eng.transitions,
                 StateTransition(location_id, current_state, r.new_state,
                                 IF ev # NoEvent THEN "event" ELSE "timeout")),
             evals |-> Append(eng.evals, entry),
             raised |-> eng.raised]
       ELSE [eng EXCEPT !.evals = Append(eng.evals, entry)]

RECURSIVE ProcessLocationUpdate(_, _, _, _, _)
RECURSIVE ProcessLocationUpdateDownwardFirst(_, _, _, _, _)
RECURSIVE FollowParentChildren(_, _, _, _)
RECURSIVE FollowParentChildrenWakeOnly(_, _, _, _)
RECURSIVE ReevaluateAllChildren(_, _, _, _)

\* Mutant: the followers are re-evaluated before the parent is told.
ProcessLocationUpdateDownwardFirst(eng, location_id, ev, t, via) ==
    LET eng1 == Commit(eng, location_id, ev, t, via)
        state_changed == eng1.state # eng.state
        config == ConfigOf(location_id)
        new_state == eng1.state[location_id]
    IN IF ~state_changed THEN eng1
       ELSE IF ~ShouldPropagate(config, new_state)
       THEN FollowParentChildren(eng1, location_id, 1, t)
       ELSE ProcessLocationUpdate(FollowParentChildren(eng1, location_id, 1, t),
                config.parent_id, ParentEvent(config, location_id, t), t,
                location_id)

ProcessLocationUpdate(eng, location_id, ev, t, via) ==
    LET eng1 == Commit(eng, location_id, ev, t, via)
        state_changed == eng1.state # eng.state
        config == ConfigOf(location_id)
        new_state == eng1.state[location_id]
        eng2 == IF ~ShouldPropagate(config, new_state) THEN eng1
                ELSE IF config.parent_id \notin ConfigIds
                THEN [eng1 EXCEPT !.raised = TRUE]
                ELSE ProcessLocationUpdate(eng1, config.parent_id,
                         ParentEvent(config, location_id, t), t, location_id)
    IN IF ~state_changed THEN eng1
       ELSE FollowParentChildren(eng2, location_id, 1, t)

\* Mutant: every child is re-evaluated, whatever its strategy.
ReevaluateAllChildren(eng, location_id, i, t) ==
    LET children == children_map(location_id)
    IN IF i > Len(children) \/ eng.raised THEN eng
       ELSE ReevaluateAllChildren(
                ProcessLocationUpdate(eng, children[i], NoEvent, t, location_id),
                location_id, i + 1, t)

\* Mutant: only a parent that is occupied re-evaluates its children.
FollowParentChildrenWakeOnly(eng, location_id, i, t) ==
    LET children == children_map(location_id)
    IN IF i > Len(children) \/ eng.raised \/ ~eng.state[location_id].is_occupied
       THEN eng
       ELSE IF ConfigOf(children[i]).occupancy_strategy = FOLLOW_PARENT
       THEN FollowParentChildrenWakeOnly(
                ProcessLocationUpdate(eng, children[i], NoEvent, t, location_id),
                location_id, i + 1, t)
       ELSE FollowParentChildrenWakeOnly(eng, location_id, i + 1, t)

\* Mutant: a changed parent does not re-evaluate its children.
NoFollowParentChildren(eng, location_id, i, t) == eng

\* 3. Downward dependency: the loop over self.children_map[location_id],
\* not entered or left at once when the KeyError has been raised.
FollowParentChildren(eng, location_id, i, t) ==
    LET children == children_map(location_id)
    IN IF i > Len(children) \/ eng.raised THEN eng
       ELSE IF ConfigOf(children[i]).occupancy_strategy = FOLLOW_PARENT
       THEN FollowParentChildren(
                ProcessLocationUpdate(eng, children[i], NoEvent, t, location_id),
                location_id, i + 1, t)
       ELSE FollowParentChildren(eng, location_id, i + 1, t)

\* ------------------------------------------------- _calculate_next_expiration
\* Mutant: the loop returns after the first state it looks at.
CalculateNextExpirationFirst(st, t) ==
    LET s == st[ConfigOrder[1]]
    IN IF /\ s.active_holds = {}
          /\ s.active_occupants = {}
          /\ s.occupied_until # None
          /\ s.occupied_until > t
       THEN s.occupied_until ELSE None

\* Mutant: held locations are not skipped.
CalculateNextExpirationAll(st, t) ==
    LET timers == {st[l].occupied_until : l \in
                     {l \in DOMAIN st :
                        /\ st[l].occupied_until # None
                        /\ st[l].occupied_until > t}}
    IN IF timers = {} THEN None
       ELSE CHOOSE x \in timers : \A y \in timers : x <= y

CalculateNextExpiration(st, t) ==
    LET timers == {st[l].occupied_until : l \in
                     {l \in DOMAIN st :
                        /\ st[l].active_holds = {}
                        /\ st[l].active_occupants = {}
                        /\ st[l].occupied_until # None
                        /\ st[l].occupied_until > t}}
    IN IF timers = {} THEN None
       ELSE CHOOSE x \in timers : \A y \in timers : x <= y

\* ------------------------------------------------------------- handle_event
\* Mutant: an event for an unknown location is applied to the first
\* configured location.
HandleEventRerouted(st, ev, t) ==
    IF ev.location_id \notin ConfigIds
    THEN ProcessLocationUpdate(Engine(st), ConfigOrder[1],
             [ev EXCEPT !.location_id = ConfigOrder[1]], t, "")
    ELSE ProcessLocationUpdate(Engine(st), ev.location_id, ev, t, "")

HandleEvent(st, ev, t) ==
    IF ev.location_id \notin ConfigIds
    THEN Engine(st)
    ELSE ProcessLocationUpdate(Engine(st), ev.location_id, ev, t, "")

\* ----------------------------------------------------------- check_timeouts
RECURSIVE SweepFrom(_, _, _)
SweepFrom(eng, i, t) ==
    IF i > Len(ConfigOrder) \/ eng.raised THEN eng
    ELSE LET location_id == ConfigOrder[i]
             st == eng.state[location_id]
         IN IF st.lock_state = LOCKED_FROZEN \/ ~st.is_occupied
            THEN SweepFrom(eng, i + 1, t)
            ELSE SweepFrom(ProcessLocationUpdate(eng, location_id, NoEvent, t, ""),
                           i + 1, t)

CheckTimeouts(st, t) == SweepFrom(Engine(st), 1, t)

\* ------------------------------------------------------------------ inputs
Home == LocationConfig("home", NoParent, INDEPENDENT, TRUE, [default |-> 1])

\* Rooms under home, in the flavours the engine distinguishes.
Kitchen == LocationConfig("kitchen", "home", INDEPENDENT, TRUE, [motion |-> 2])
Den == LocationConfig("den", "home", FOLLOW_PARENT, TRUE, [motion |-> 2])
Backyard == LocationConfig("backyard", "home", INDEPENDENT, FALSE,
                           [motion |-> 2, propagated |-> 1])
\* A shed in the backyard, following it.
Shed == LocationConfig("shed", "backyard", FOLLOW_PARENT, TRUE, [motion |-> 2])

\* A floor between home and its rooms, and a nook on that floor: a chain
\* of three levels whose propagated timeouts are shorter than the motion
\* timeouts.
Floor == LocationConfig("floor", "home", INDEPENDENT, TRUE,
                        [motion |-> 2, propagated |-> 1])
Nook == LocationConfig("nook", "floor", INDEPENDENT, TRUE, [motion |-> 2])

\* A loft that follows the floor and contributes to it: the floor has a
\* parent above and a follower below.
Loft == LocationConfig("loft", "floor", FOLLOW_PARENT, TRUE, [motion |-> 2])
Chains == {<<Home, Floor, Loft>>, <<Loft, Floor, Home>>}

\* A single parentless room.
Room == LocationConfig("kitchen", NoParent, INDEPENDENT, TRUE,
                       [motion |-> 1, door |-> 0])

\* The party house: home, main_floor under it, and on main_floor a kitchen
\* and a living room that follows its parent.  home and main_floor carry
\* the default timeouts of LocationConfig.
DefaultTimeouts == [motion |-> 10, presence |-> 2, media |-> 5]
PartyHome == LocationConfig("home", NoParent, INDEPENDENT, TRUE, DefaultTimeouts)
MainFloor == LocationConfig("main_floor", "home", INDEPENDENT, TRUE, DefaultTimeouts)
PartyKitchen == LocationConfig("kitchen", "main_floor", INDEPENDENT, TRUE,
                               [motion |-> 10])
LivingRoom == LocationConfig("living_room", "main_floor", FOLLOW_PARENT, TRUE,
                             [motion |-> 10])
PartyHouse == <<PartyHome, MainFloor, PartyKitchen, LivingRoom>>

\* The instants of the party: 12:00 and 15 minutes later.
Noon == 0
QuarterPast == 15
PartyClock == {Noon, QuarterPast}

Singles == {<<Room>>}
Pairs == {<<Home, Kitchen>>, <<Den, Home>>, <<Home, Backyard>>}
Trees == {<<Home, Kitchen, Den>>, <<Den, Kitchen, Home>>, <<Shed, Backyard, Home>>,
          <<Home, Floor, Nook>>}
Topologies == Singles \cup Pairs \cup Trees

\* Lists the constructor accepts although they are not hierarchies: two
\* configs with the same id, and a config whose parent_id is not an id of
\* the list.
Larder == LocationConfig("kitchen", NoParent, INDEPENDENT, TRUE, [motion |-> 2])
Orphan == LocationConfig("shed", "attic", FOLLOW_PARENT, TRUE, [motion |-> 1])
Unchecked == {<<Room, Larder>>, <<Orphan>>, <<Orphan, Home>>}

Unknown == "garage"

\* Anonymous sensor events and lock toggles, on every location and on one
\* id that is not configured.
SensorEvents(t) ==
    {OccupancyEvent(l, k, "motion", "pir", t, NoOccupant, None) :
        l \in ConfigIds, k \in {MOMENTARY, HOLD_START, HOLD_END, LOCK_CHANGE}}
    \cup {OccupancyEvent(Unknown, MOMENTARY, "motion", "pir", t, NoOccupant, None)}

\* Events that carry an identity, and manual switches with the category
\* timeout or an explicit duration (the sauna switch).
LongDuration == 3
RichEvents(t) ==
    {OccupancyEvent(l, k, "motion", "pir", t, "Mike", None) :
        l \in ConfigIds, k \in {MOMENTARY, HOLD_START, HOLD_END}}
    \cup {OccupancyEvent(l, MANUAL, "motion", "switch", t, NoOccupant, d) :
        l \in ConfigIds, d \in {None, LongDuration}}

\* A second hold source, a second occupant, and a door contact whose
\* category has a zero timeout; the second hold can end with that category.
CrowdEvents(t) ==
    {OccupancyEvent(l, k, "motion", "radar", t, o, None) :
        l \in ConfigIds, k \in {HOLD_START, HOLD_END}, o \in {NoOccupant, "Marla"}}
    \cup {OccupancyEvent(l, MOMENTARY, "door", "contact", t, NoOccupant, None) :
        l \in ConfigIds}
    \cup {OccupancyEvent(l, HOLD_END, "door", "radar", t, NoOccupant, None) :
        l \in ConfigIds}

\* Sensor events the host delivers a minute after their timestamp.
LateEvents(t) ==
    IF t = 0 THEN {}
    ELSE {OccupancyEvent(l, k, "motion", "pir", t - 1, NoOccupant, None) :
             l \in ConfigIds, k \in {MOMENTARY, MANUAL, HOLD_END}}

\* A switch and a pulse with an explicit duration of zero minutes.
ZeroEvents(t) ==
    {OccupancyEvent(l, k, "motion", "switch", t, NoOccupant, 0) :
        l \in ConfigIds, k \in {MANUAL, MOMENTARY}}

\* Motion pulses and the user's lock toggle, on every location.
PartyEvents(t) ==
    {OccupancyEvent(l, MOMENTARY, "motion", "pir", t, NoOccupant, None) :
        l \in ConfigIds}
    \cup {OccupancyEvent(l, LOCK_CHANGE, "manual", "user", t, NoOccupant, None) :
        l \in ConfigIds}

\* The smaller the hierarchy, the richer its events: three locations are
\* driven by the sensor events only, the party house by pulses and locks.
Events(t) ==
    IF Len(configs) = 1
    THEN SensorEvents(t) \cup RichEvents(t) \cup CrowdEvents(t) \cup LateEvents(t)
         \cup ZeroEvents(t)
    ELSE IF Len(configs) = 2 THEN SensorEvents(t) \cup RichEvents(t)
    ELSE IF Len(configs) = 3 THEN SensorEvents(t)
    ELSE PartyEvents(t)

\* The host's clock does not run backwards.
Times ==
    IF configs = PartyHouse THEN {t \in PartyClock : t >= now}
    ELSE now..MaxTime

\* ----------------------------------------------------------- snapshot codec
\* datetime.isoformat(): the instant t (minutes after 12:00 of the day all
\* instants share) as the text "HH:MM", a sequence of four decimal digits.
MinutesToNoon == 720
\* Mutant: the text is cut to the hour.
IsoFormatHour(t) ==
    LET m == MinutesToNoon + t
    IN <<(m \div 60) \div 10, (m \div 60) % 10, 0, 0>>

IsoFormat(t) ==
    LET m == MinutesToNoon + t
    IN <<(m \div 60) \div 10, (m \div 60) % 10, (m % 60) \div 10, (m % 60) % 10>>

\* JSON null; like the empty text it is falsy for `if data.get(...)`.
JsonNull == <<>>

\* datetime.fromisoformat() succeeds on this text.
IsIsoFormat(text) ==
    /\ Len(text) = 4
    /\ \A i \in 1..4 : text[i] \in 0..9
    /\ 10 * text[1] + text[2] < 24
    /\ 10 * text[3] + text[4] < 60

FromIsoFormat(text) ==
    60 * (10 * text[1] + text[2]) + 10 * text[3] + text[4] - MinutesToNoon

\* list(a_set) and set(a_list).
RECURSIVE SetToList(_)
SetToList(S) ==
    IF S = {} THEN <<>>
    ELSE LET x == CHOOSE y \in S : TRUE
         IN <<x>> \o SetToList(S \ {x})

ListToSet(xs) == {xs[i] : i \in 1..Len(xs)}

\* data.get(key, default)
Get(data, key, default) == IF key \in DOMAIN data THEN data[key] ELSE default

\* Mutant: every vacant location without occupants and holds is skipped.
IsVacantState(st) ==
    /\ ~st.is_occupied
    /\ st.active_occupants = {}
    /\ st.active_holds = {}

\* export_state skips a location in exactly this state.
IsDefaultState(st) ==
    /\ ~st.is_occupied
    /\ st.lock_state = UNLOCKED
    /\ st.active_occupants = {}
    /\ st.active_holds = {}
    /\ st.occupied_until = None

ExportEntry(st) ==
    [is_occupied |-> st.is_occupied,
     occupied_until |-> IF st.occupied_until # None
                        THEN IsoFormat(st.occupied_until) ELSE JsonNull,
     active_occupants |-> SetToList(st.active_occupants),
     active_holds |-> SetToList(st.active_holds),
     lock_state |-> st.lock_state]

\* A snapshot is the dict as the list of its items, in iteration order.
RECURSIVE ExportFrom(_, _)
ExportFrom(st, i) ==
    IF i > Len(ConfigOrder) THEN <<>>
    ELSE LET loc_id == ConfigOrder[i]
         IN IF IsDefaultState(st[loc_id]) THEN ExportFrom(st, i + 1)
            ELSE <<[loc_id |-> loc_id, data |-> ExportEntry(st[loc_id])]>>
                 \o ExportFrom(st, i + 1)

ExportState(st) == ExportFrom(st, 1)

\* The parsed occupied_until of an entry: None when the key is missing,
\* null or empty, and when fromisoformat raises.
ParseOccupiedUntil(data) ==
    LET text == Get(data, "occupied_until", JsonNull)
    IN IF text = JsonNull THEN None
       ELSE IF IsIsoFormat(text) THEN FromIsoFormat(text)
       ELSE None

\* LockState(value) raises ValueError for any other string.
IsLockState(value) == value \in {UNLOCKED, LOCKED_FROZEN}

\* Mutant: rule C is missing, an elapsed timer is restored as saved.
RestoreEntryStale(data, t) ==
    LET lock_state_value == Get(data, "lock_state", UNLOCKED)
        active_occupants == ListToSet(Get(data, "active_occupants", <<>>))
        active_holds == ListToSet(Get(data, "active_holds", <<>>))
        held == active_occupants # {} \/ active_holds # {}
    IN LocationRuntimeState(
          IF lock_state_value # LOCKED_FROZEN /\ held THEN TRUE
          ELSE Get(data, "is_occupied", FALSE),
          ParseOccupiedUntil(data), active_occupants, active_holds,
          lock_state_value)

\* Mutant: rule A is missing, a locked entry goes through rules B and C.
RestoreEntryThawed(data, t) ==
    LET occupied_until == ParseOccupiedUntil(data)
        lock_state_value == Get(data, "lock_state", UNLOCKED)
        active_occupants == ListToSet(Get(data, "active_occupants", <<>>))
        active_holds == ListToSet(Get(data, "active_holds", <<>>))
    IN IF active_occupants # {} \/ active_holds # {}
       THEN LocationRuntimeState(TRUE, occupied_until, active_occupants,
                                 active_holds, lock_state_value)
       ELSE IF occupied_until # None /\ occupied_until < t
       THEN DefaultState
       ELSE LocationRuntimeState(Get(data, "is_occupied", FALSE), occupied_until,
                                 active_occupants, active_holds, lock_state_value)

\* The state one entry restores to (rules A, B, C and the plain case).
RestoreEntry(data, t) ==
    LET occupied_until == ParseOccupiedUntil(data)
        is_occupied == Get(data, "is_occupied", FALSE)
        lock_state_value == Get(data, "lock_state", UNLOCKED)
        active_occupants == ListToSet(Get(data, "active_occupants", <<>>))
        active_holds == ListToSet(Get(data, "active_holds", <<>>))
    IN IF lock_state_value = LOCKED_FROZEN
       THEN LocationRuntimeState(is_occupied, occupied_until, active_occupants,
                                 active_holds, lock_state_value)
       ELSE IF active_occupants # {} \/ active_holds # {}
       THEN LocationRuntimeState(TRUE, occupied_until, active_occupants,
                                 active_holds, lock_state_value)
       ELSE IF occupied_until # None /\ occupied_until < t
       THEN DefaultState
       ELSE LocationRuntimeState(is_occupied, occupied_until, active_occupants,
                                 active_holds, lock_state_value)

\* Rule C replaces the state without constructing a LockState.
ExpiredEntry(data, t) ==
    /\ Get(data, "lock_state", UNLOCKED) # LOCKED_FROZEN
    /\ Get(data, "active_occupants", <<>>) = <<>>
    /\ Get(data, "active_holds", <<>>) = <<>>
    /\ ParseOccupiedUntil(data) # None
    /\ ParseOccupiedUntil(data) < t

\* restore_state: the loop over snapshot.items(); raised is the ValueError
\* that leaves the loop with the entries before it restored.
RECURSIVE RestoreFrom(_, _, _, _)
RestoreFrom(eng, snapshot, i, t) ==
    IF i > Len(snapshot) \/ eng.raised THEN eng
    ELSE LET loc_id == snapshot[i].loc_id
             data == snapshot[i].data
         IN IF loc_id \notin ConfigIds THEN RestoreFrom(eng, snapshot, i + 1, t)
            ELSE IF ~ExpiredEntry(data, t)
                    /\ ~IsLockState(Get(data, "lock_state", UNLOCKED))
            THEN [eng EXCEPT !.raised = TRUE]
            ELSE RestoreFrom(
                    [eng EXCEPT !.state = (loc_id :> RestoreEntry(data, t)) @@ @],
                    snapshot, i + 1, t)

\* Mutant: the restore starts from default states.
RestoreStateFromScratch(st, snapshot, t) ==
    RestoreFrom([state |-> [id \in DOMAIN st |-> DefaultState], raised |-> FALSE],
                snapshot, 1, t)

RestoreState(st, snapshot, t) ==
    RestoreFrom([state |-> st, raised |-> FALSE], snapshot, 1, t)

\* ------------------------------------------------------------ specification
Init ==
    /\ configs \in Topologies
    /\ state = [id \in ConfigIds |-> DefaultState]
    /\ op = "init"
    /\ now = 0
    /\ next_expiration = None

\* The call named method ends: with an EngineResult, or with the KeyError
\* after which the host holds no result and the engine keeps the state
\* committed so far.
Return(method, eng, t) ==
    /\ state' = eng.state
    /\ op' = IF eng.raised THEN "KeyError" ELSE method
    /\ next_expiration' = IF eng.raised THEN next_expiration
                          ELSE CalculateNextExpiration(eng.state, t)
    /\ now' = t
    /\ UNCHANGED configs

handle_event ==
    \E t \in Times : \E ev \in Events(t) :
        Return("handle_event", HandleEvent(state, ev, t), t)

check_timeouts ==
    \E t \in Times :
        Return("check_timeouts", CheckTimeouts(state, t), t)

Next == handle_event \/ check_timeouts

\* Every call the host can make in the current state, and what it does.
Calls ==
    UNION {{[op |-> "handle_event", event |-> ev, now |-> t] : ev \in Events(t)}
              : t \in Times}
    \cup {[op |-> "check_timeouts", event |-> NoEvent, now |-> t] : t \in Times}

Run(c) ==
    IF c.op = "handle_event" THEN HandleEvent(state, c.event, c.now)
    ELSE CheckTimeouts(state, c.now)

Spec == Init /\ [][Next]_vars

\* The engine constructed for the party house.
InitParty ==
    /\ configs = PartyHouse
    /\ state = [id \in ConfigIds |-> DefaultState]
    /\ op = "init"
    /\ now = Noon
    /\ next_expiration = None

SpecParty == InitParty /\ [][Next]_vars

\* The engines __init__ builds from the unchecked lists: it stores the
\* configs by id and gives every id a default state, with no validation.
InitUnchecked ==
    /\ configs \in Unchecked
    /\ state = [id \in ConfigIds |-> DefaultState]
    /\ op = "init"
    /\ now = 0
    /\ next_expiration = None

SpecUnchecked == InitUnchecked /\ [][Next]_vars

\* A text fromisoformat rejects ("25:00").
Malformed == <<2, 5, 0, 0>>

\* A lock_state string that is no value of LockState.
Jammed == "locked"

\* Entries a persisted file can hold: written by export_state at an earlier
\* instant, or edited by hand.
EntryData ==
    {[is_occupied |-> b, occupied_until |-> u, active_occupants |-> o,
      active_holds |-> h, lock_state |-> k] :
        b \in BOOLEAN,
        u \in {JsonNull, IsoFormat(0), IsoFormat(1), Malformed},
        o \in {<<>>, <<"Mike">>},
        h \in {<<>>, <<"pir">>},
        k \in {UNLOCKED, LOCKED_FROZEN, Jammed}}

\* Entries with keys missing.
PartialData ==
    {[is_occupied |-> TRUE], [lock_state |-> LOCKED_FROZEN],
     [active_holds |-> <<"pir">>, occupied_until |-> IsoFormat(0)]}

FewData ==
    {d \in EntryData :
        /\ (d.is_occupied \/ (d.lock_state = LOCKED_FROZEN /\ d.occupied_until = JsonNull))
        /\ d.active_occupants = <<>>
        /\ d.occupied_until \in {JsonNull, IsoFormat(1)}
        /\ (d.lock_state = LOCKED_FROZEN => d.active_holds = <<>>)}

\* One-entry files for one location, two-entry files for two; an entry may
\* name a location that is not configured.
ForeignSnapshots ==
    IF Len(configs) = 1
    THEN {<<[loc_id |-> l, data |-> d]>> :
             l \in ConfigIds \cup {Unknown}, d \in EntryData \cup PartialData}
    ELSE {<<[loc_id |-> ls[1], data |-> d1], [loc_id |-> ls[2], data |-> d2]>> :
             ls \in {p \in (ConfigIds \cup {Unknown}) \X (ConfigIds \cup {Unknown}) :
                        p[1] # p[2]},
             d1 \in FewData, d2 \in FewData}

\* What the host can pass to restore_state: the export of the current
\* state, or a file.
Snapshots == {ExportState(state)} \cup ForeignSnapshots

\* The engine constructed for a chain.
InitChain ==
    /\ configs \in Chains
    /\ state = [id \in ConfigIds |-> DefaultState]
    /\ op = "init"
    /\ now = 0
    /\ next_expiration = None

SpecChain == InitChain /\ [][Next]_vars

\* The engine constructed before a restore: the host restores the file,
\* sweeps, and exports again.
InitSnapshot ==
    /\ configs \in {<<Room>>, <<Home, Kitchen>>}
    /\ state = [id \in ConfigIds |-> DefaultState]
    /\ op = "init"
    /\ now = 0
    /\ next_expiration = None

\* export_state reads self.state and changes nothing.
export_state ==
    /\ op' = "export_state"
    /\ UNCHANGED <<configs, state, now, next_expiration>>

\* restore_state returns nothing; a ValueError leaves the entries restored
\* so far in place.
restore_state ==
    \E t \in Times : \E snapshot \in Snapshots :
        LET eng == RestoreState(state, snapshot, t)
        IN /\ state' = eng.state
           /\ op' = IF eng.raised THEN "ValueError" ELSE "restore_state"
           /\ now' = t
           /\ UNCHANGED <<configs, next_expiration>>

NextSnapshot == restore_state \/ export_state \/ check_timeouts

SpecSnapshot == InitSnapshot /\ [][NextSnapshot]_vars

\* --------------------------------------------------------- the host's wakeups
\* A host that does what EngineResult.next_expiration asks for: it calls
\* check_timeouts(t) at every returned instant t, and handles an event only
\* while no such call is due. At some point its sensors go quiet (op =
\* "idle"), after which the wakeup calls are all that reach the engine.
InitWakeup ==
    /\ configs \in Topologies
    /\ state = [id \in ConfigIds |-> DefaultState]
    /\ op = "init"
    /\ now = 0
    /\ next_expiration = None

\* handle_event(event, t), called before the instant of the pending wakeup.
arrive ==
    /\ op # "idle"
    /\ \E t \in Times :
        /\ next_expiration # None => t < next_expiration
        /\ \E ev \in Events(t) :
            Return("handle_event", HandleEvent(state, ev, t), t)

\* check_timeouts(next_expiration), called at the returned instant.
wakeup ==
    /\ next_expiration # None
    /\ Return(IF op = "idle" THEN "idle" ELSE "check_timeouts",
              CheckTimeouts(state, next_expiration), next_expiration)

\* No further events arrive.
quiet ==
    /\ op # "idle"
    /\ op' = "idle"
    /\ UNCHANGED <<configs, state, now, next_expiration>>

NextWakeup == arrive \/ wakeup \/ quiet

\* The host's timer fires: a wakeup that is due is eventually made. This is
\* WF_vars(wakeup) with ENABLED <<wakeup>>_vars written out: the call is
\* possible exactly while a next_expiration is held, and it changes now.
WakeupsAreMade == []<>(next_expiration = None) \/ []<><<wakeup>>_vars

SpecWakeup == InitWakeup /\ [][NextWakeup]_vars /\ WakeupsAreMade

\* Every restore_state call the host can make in the current state.
Restores == {[snapshot |-> s, now |-> t] : s \in Snapshots, t \in Times}

\* The location ids for which a call emitted a transition.
Emitted(eng) == {eng.transitions[i].location_id : i \in 1..Len(eng.transitions)}

\* ------------------------------------------------------------------ claims

\* C1 (I2, no Ghost Mike residue): after any sequence of handle_event and
\* check_timeouts calls from default-vacant states, every location with
\* is_occupied = false has no occupied_until, no occupants and no holds.
C1_VacantIsClean ==
    \A l \in ConfigIds :
        ~state[l].is_occupied =>
            /\ state[l].occupied_until = None
            /\ state[l].active_occupants = {}
            /\ state[l].active_holds = {}

\* A location is occupied with a timer, and a sweep the host can run now
\* makes it vacant with all three fields cleared.
C1_Witness ==
    \E t \in Times, l \in ConfigIds :
        /\ state[l].is_occupied
        /\ state[l].occupied_until # None
        /\ LET after == CheckTimeouts(state, t).state[l]
           IN /\ ~after.is_occupied
              /\ after.occupied_until = None
              /\ after.active_occupants = {}
              /\ after.active_holds = {}

\* C2 (I3): after every call, a location whose active_holds or
\* active_occupants is non-empty has no occupied_until.
C2_HeldHasNoTimer ==
    \A l \in ConfigIds :
        (state[l].active_holds # {} \/ state[l].active_occupants # {})
            => state[l].occupied_until = None

\* The four reasons of I1 for location l at instant t.
OccupancyReasons(l, t) ==
    \/ state[l].active_holds # {}
    \/ state[l].active_occupants # {}
    \/ (state[l].occupied_until # None /\ t < state[l].occupied_until)
    \/ /\ ConfigOf(l).occupancy_strategy = FOLLOW_PARENT
       /\ ConfigOf(l).parent_id # NoParent
       /\ state[ConfigOf(l).parent_id].is_occupied

\* C3 (I1) as claimed: after every call, for every location, locked or not,
\* targeted or not, is_occupied holds iff one of the four reasons holds at
\* the call's now.
C3_I1_Everywhere ==
    \A l \in ConfigIds : state[l].is_occupied <=> OccupancyReasons(l, now)

\* C3 amended: after every check_timeouts(now), for every UNLOCKED location,
\* is_occupied holds iff one of the four reasons holds at now; after every
\* call, for every UNLOCKED location, each of the reasons implies
\* is_occupied.  (An elapsed timer is retired only by a sweep, and a
\* LOCKED_FROZEN location is not re-evaluated at all.)
C3_I1_Unlocked ==
    \A l \in ConfigIds :
        state[l].lock_state = UNLOCKED =>
            /\ OccupancyReasons(l, now) => state[l].is_occupied
            /\ op = "check_timeouts" =>
                   (state[l].is_occupied => OccupancyReasons(l, now))

\* After a sweep, one unlocked location is vacant and an unlocked
\* FOLLOW_PARENT location is occupied through its parent alone.
C3_Witness ==
    /\ op = "check_timeouts"
    /\ \E l \in ConfigIds :
        state[l].lock_state = UNLOCKED /\ ~state[l].is_occupied
    /\ \E l \in ConfigIds :
        /\ state[l].lock_state = UNLOCKED
        /\ state[l].is_occupied
        /\ ConfigOf(l).occupancy_strategy = FOLLOW_PARENT
        /\ state[l].active_holds = {}
        /\ state[l].active_occupants = {}
        /\ state[l].occupied_until = None

\* C4: while a location is LOCKED_FROZEN, every call other than a MANUAL or
\* LOCK_CHANGE event targeted at it (sensor events on it, events elsewhere
\* with their propagation and re-evaluation ticks, sweeps at any now)
\* leaves its five fields unchanged and emits no transition for it.
C4_LockedIsFrozen ==
    \A c \in Calls :
        LET r == Run(c)
        IN \A l \in ConfigIds :
            (/\ state[l].lock_state = LOCKED_FROZEN
             /\ ~(/\ c.op = "handle_event"
                  /\ c.event.location_id = l
                  /\ c.event.event_type \in {MANUAL, LOCK_CHANGE}))
            => r.state[l] = state[l] /\ l \notin Emitted(r)

\* A LOCKED_FROZEN location whose timer elapsed long ago is reached, within
\* a call on another location, by a PROPAGATED event or a re-evaluation
\* tick, and a sweep is possible too.
C4_Witness ==
    \E l \in ConfigIds :
        /\ state[l].lock_state = LOCKED_FROZEN
        /\ state[l].occupied_until # None
        /\ state[l].occupied_until < now
        /\ \E c \in Calls :
            LET r == Run(c)
            IN \E i \in 1..Len(r.evals) :
                /\ r.evals[i].location_id = l
                /\ r.evals[i].via # ""

\* C5 (I4): a call changes the lock_state of a location only if it is
\* handle_event with a LOCK_CHANGE event whose location_id is that location.
C5_LockOnlyByLockChange ==
    \A c \in Calls :
        LET r == Run(c)
        IN \A l \in ConfigIds :
            r.state[l].lock_state # state[l].lock_state
                => /\ c.op = "handle_event"
                   /\ c.event.event_type = LOCK_CHANGE
                   /\ c.event.location_id = l

\* A LOCK_CHANGE on an occupied location toggles its lock, and the same
\* call evaluates another location with a PROPAGATED event or a tick.
C5_Witness ==
    \E c \in Calls :
        /\ c.op = "handle_event"
        /\ c.event.event_type = LOCK_CHANGE
        /\ c.event.location_id \in ConfigIds
        /\ LET r == Run(c)
               l == c.event.location_id
           IN /\ r.state[l].lock_state # state[l].lock_state
              /\ \E i \in 1..Len(r.evals) : r.evals[i].location_id # l

\* The evaluations of call c that process a timer event: a MOMENTARY, MANUAL
\* or PROPAGATED event that passes the lock gate of its location.
TimerEvals(c) ==
    LET r == Run(c)
    IN {r.evals[i] : i \in {j \in 1..Len(r.evals) :
            /\ r.evals[j].event # NoEvent
            /\ r.evals[j].event.event_type \in {MOMENTARY, MANUAL, PROPAGATED}
            /\ ~LockGateRejects(r.evals[j].before[r.evals[j].location_id],
                                r.evals[j].event)}}

\* The expiry derived from the event of evaluation e in a call at instant t.
DerivedExpiry(e, t) == t + TimeoutDelta(e.event, e.location_id)

\* The evaluated location follows an occupied parent that is held.
FollowsHeldParent(e) ==
    /\ FollowsOccupiedParent(e.before, ConfigOf(e.location_id))
    /\ ParentIsHeld(e.before, ConfigOf(e.location_id))

C7_GhostMike ==
    [][op' = "check_timeouts" =>
        \A l \in ConfigIds :
            (/\ ConfigOf(l).parent_id = NoParent
             /\ children_map(l) = <<>>
             /\ state[l].lock_state = UNLOCKED
             /\ state[l].active_holds = {}
             /\ state[l].occupied_until # None
             /\ state[l].occupied_until < now')
            => /\ ~state'[l].is_occupied
               /\ state'[l].active_occupants = {}
               /\ state'[l].occupied_until = None]_vars

RECURSIVE InSubtree(_, _)
InSubtree(x, L) ==
    \/ x = L
    \/ /\ ConfigOf(x).parent_id # NoParent
       /\ InSubtree(ConfigOf(x).parent_id, L)

\* C9 (backyard isolation): for a location L with contributes_to_parent =
\* false, no call evaluates L's parent because of a change of L, and an
\* event targeted at L or at a descendant of L leaves L's parent unchanged
\* and emits no transition for it.
C9_BackyardIsolation ==
    \A c \in Calls :
        LET r == Run(c)
        IN \A L \in ConfigIds :
            (ConfigOf(L).parent_id # NoParent /\ ~ConfigOf(L).contributes_to_parent) =>
                LET P == ConfigOf(L).parent_id
                IN /\ \A i \in 1..Len(r.evals) :
                        ~(r.evals[i].location_id = P /\ r.evals[i].via = L)
                   /\ (/\ c.op = "handle_event"
                       /\ c.event.location_id \in ConfigIds
                       /\ InSubtree(c.event.location_id, L))
                      => r.state[P] = state[P] /\ P \notin Emitted(r)

\* After a sweep, an event on a descendant of an isolated location changes
\* that location by propagation, while the isolated location's parent is
\* and stays vacant.
C9_Witness ==
    \E c \in Calls, L \in ConfigIds :
        /\ op = "check_timeouts"
        /\ ConfigOf(L).parent_id # NoParent
        /\ ~ConfigOf(L).contributes_to_parent
        /\ ~state[ConfigOf(L).parent_id].is_occupied
        /\ c.op = "handle_event"
        /\ c.event.location_id \in ConfigIds \ {L}
        /\ InSubtree(c.event.location_id, L)
        /\ LET r == Run(c)
           IN /\ L \in Emitted(r)
              /\ r.state[L].is_occupied
              /\ ~r.state[ConfigOf(L).parent_id].is_occupied

\* C10 (vacancy never bubbles up): every PROPAGATED event a call evaluates
\* comes from a location whose committed state is occupied; and a sweep
\* that makes a child vacant while its parent's own occupied_until is still
\* later than now leaves the parent occupied and emits no transition for it.
C10_VacancyNeverBubbles ==
    \A c \in Calls :
        LET r == Run(c)
        IN /\ \A i \in 1..Len(r.evals) :
                (r.evals[i].event # NoEvent
                    /\ r.evals[i].event.event_type = PROPAGATED)
                => r.evals[i].before[r.evals[i].via].is_occupied
           /\ c.op = "check_timeouts" =>
                \A C \in ConfigIds :
                    LET P == ConfigOf(C).parent_id
                    IN (/\ P # NoParent
                        /\ state[C].is_occupied
                        /\ ~r.state[C].is_occupied
                        /\ state[P].is_occupied
                        /\ state[P].occupied_until # None
                        /\ state[P].occupied_until > c.now)
                       => r.state[P].is_occupied /\ P \notin Emitted(r)

\* A sweep vacates a contributing child whose parent's timer is still
\* running.
C10_Witness ==
    \E c \in Calls, C \in ConfigIds :
        /\ c.op = "check_timeouts"
        /\ ConfigOf(C).parent_id # NoParent
        /\ ConfigOf(C).contributes_to_parent
        /\ state[C].is_occupied
        /\ state[ConfigOf(C).parent_id].lock_state = UNLOCKED
        /\ state[ConfigOf(C).parent_id].occupied_until # None
        /\ state[ConfigOf(C).parent_id].occupied_until > c.now
        /\ LET r == Run(c)
           IN /\ C \in Emitted(r)
              /\ ~r.state[C].is_occupied
              /\ r.state[ConfigOf(C).parent_id].is_occupied

\* The proper ancestors of location l.
RECURSIVE Ancestors(_)
Ancestors(l) ==
    IF ConfigOf(l).parent_id = NoParent THEN {}
    ELSE {ConfigOf(l).parent_id} \cup Ancestors(ConfigOf(l).parent_id)

\* Every location on the chain from l to the root is UNLOCKED in st and,
\* below the root, contributes to its parent.
OpenChain(st, l) ==
    \A x \in {l} \cup Ancestors(l) :
        /\ st[x].lock_state = UNLOCKED
        /\ ConfigOf(x).parent_id # NoParent => ConfigOf(x).contributes_to_parent

\* C11 as claimed: when handle_event changes a location L and leaves it
\* occupied, and the chain from L to the root is unlocked and contributing,
\* every ancestor of L is occupied when the call returns, and an ancestor
\* whose occupied_until was earlier than now + its propagated timeout has a
\* later occupied_until than before.
C11_AllAncestorsOccupied ==
    \A c \in Calls :
        (c.op = "handle_event" /\ c.event.location_id \in ConfigIds) =>
            LET r == Run(c)
                L == c.event.location_id
            IN (/\ r.state[L] # state[L]
                /\ r.state[L].is_occupied
                /\ OpenChain(state, L)
                /\ OpenChain(r.state, L))
               => \A A \in Ancestors(L) :
                    /\ r.state[A].is_occupied
                    /\ (/\ state[A].occupied_until # None
                        /\ state[A].occupied_until
                               < c.now + GetTimeout("propagated", A))
                       => r.state[A].occupied_until > state[A].occupied_until

\* C11 amended: propagation climbs one level per committed change.  In any
\* call, when an evaluation changes a location X and leaves it occupied, X
\* contributes to a parent P that is UNLOCKED at that moment, and P's
\* propagated timeout is positive, then when the call returns P is occupied
\* and P.occupied_until is at least now + that timeout (or absent, when P
\* follows an occupied parent that has holds or occupants).  A PROPAGATED
\* event is evaluated on a location only directly after an evaluation that
\* changed the child it comes from; an ancestor above a parent that the
\* PROPAGATED event left unchanged is not evaluated.
C11_PropagationClimbsOnChange ==
    \A c \in Calls :
        LET r == Run(c)
        IN \A i \in 1..Len(r.evals) :
            LET e == r.evals[i]
                config == ConfigOf(e.location_id)
                P == config.parent_id
            IN /\ (/\ e.changed
                   /\ e.after.is_occupied
                   /\ P # NoParent
                   /\ config.contributes_to_parent
                   /\ e.before[P].lock_state = UNLOCKED
                   /\ GetTimeout("propagated", P) > 0)
                  => /\ r.state[P].is_occupied
                     /\ \/ r.state[P].occupied_until
                              >= c.now + GetTimeout("propagated", P)
                        \/ /\ r.state[P].occupied_until = None
                           /\ FollowsOccupiedParent(r.state, ConfigOf(P))
                           /\ ParentIsHeld(r.state, ConfigOf(P))
               /\ (e.event # NoEvent /\ e.event.event_type = PROPAGATED)
                  => /\ i > 1
                     /\ r.evals[i-1].location_id = e.via
                     /\ r.evals[i-1].changed
                     /\ ConfigOf(e.via).parent_id = e.location_id

\* An event on a location two levels below the root, all unlocked and
\* vacant above it, makes it occupied and the change climbs to the parent
\* and from there to the root, both of which become occupied.
C11_Witness ==
    \E c \in Calls :
        /\ c.op = "handle_event"
        /\ c.event.location_id \in ConfigIds
        /\ LET r == Run(c)
               L == c.event.location_id
           IN /\ Cardinality(Ancestors(L)) = 2
              /\ OpenChain(state, L)
              /\ \A A \in Ancestors(L) : ~state[A].is_occupied
              /\ r.state[L].is_occupied
              /\ \A A \in Ancestors(L) :
                    /\ A \in Emitted(r)
                    /\ r.state[A].is_occupied
                    /\ r.state[A].occupied_until
                          = c.now + GetTimeout("propagated", A)

\* C12: a LOCKED_FROZEN parent absorbs propagation.  When an event on a
\* child of a LOCKED_FROZEN location changes the child and leaves it
\* occupied, the locked parent's state is unchanged, and neither it nor any
\* ancestor above it changes or gets a transition in that call; the
\* PROPAGATED event the parent received is the last evaluation of the
\* upward chain.
C12_LockedParentAbsorbs ==
    \A c \in Calls :
        (c.op = "handle_event" /\ c.event.location_id \in ConfigIds) =>
            LET r == Run(c)
                L == c.event.location_id
                P == ConfigOf(L).parent_id
            IN (/\ P # NoParent
                /\ state[P].lock_state = LOCKED_FROZEN
                /\ r.state[L] # state[L]
                /\ r.state[L].is_occupied)
               => /\ \A A \in Ancestors(L) :
                        r.state[A] = state[A] /\ A \notin Emitted(r)
                  /\ \A i \in 1..Len(r.evals) :
                        r.evals[i].location_id \notin Ancestors(P)

\* A vacant location becomes occupied by an event while its parent is
\* LOCKED_FROZEN and the root above that parent is unlocked: the parent
\* receives the PROPAGATED event and the root is not touched.
C12_Witness ==
    \E c \in Calls :
        /\ c.op = "handle_event"
        /\ c.event.location_id \in ConfigIds
        /\ LET r == Run(c)
               L == c.event.location_id
               P == ConfigOf(L).parent_id
           IN /\ P # NoParent
              /\ ConfigOf(L).contributes_to_parent
              /\ state[P].lock_state = LOCKED_FROZEN
              /\ Ancestors(P) # {}
              /\ \A A \in Ancestors(P) :
                    state[A].lock_state = UNLOCKED /\ ~state[A].is_occupied
              /\ ~state[L].is_occupied
              /\ r.state[L].is_occupied
              /\ \E i \in 1..Len(r.evals) :
                    /\ r.evals[i].location_id = P
                    /\ r.evals[i].event # NoEvent
                    /\ r.evals[i].event.event_type = PROPAGATED
                    /\ ~r.evals[i].changed
              /\ \A A \in Ancestors(P) : ~r.state[A].is_occupied

\* C13 (follow-parent tracking): after every call from default-vacant
\* states, every UNLOCKED location with strategy FOLLOW_PARENT whose parent
\* has is_occupied = true is itself occupied.
C13_FollowParentTracks ==
    \A l \in ConfigIds :
        (/\ ConfigOf(l).occupancy_strategy = FOLLOW_PARENT
         /\ ConfigOf(l).parent_id # NoParent
         /\ state[l].lock_state = UNLOCKED
         /\ state[ConfigOf(l).parent_id].is_occupied)
        => state[l].is_occupied

\* An event on a sibling makes the vacant parent occupied by propagation,
\* and the vacant, unlocked FOLLOW_PARENT child is occupied when that same
\* call returns, by a re-evaluation tick from the parent.
C13_Witness ==
    \E c \in Calls, l \in ConfigIds :
        /\ c.op = "handle_event"
        /\ ConfigOf(l).occupancy_strategy = FOLLOW_PARENT
        /\ ConfigOf(l).parent_id # NoParent
        /\ c.event.location_id \in ConfigIds \ {l, ConfigOf(l).parent_id}
        /\ ConfigOf(c.event.location_id).parent_id = ConfigOf(l).parent_id
        /\ state[l].lock_state = UNLOCKED
        /\ ~state[l].is_occupied
        /\ ~state[ConfigOf(l).parent_id].is_occupied
        /\ LET r == Run(c)
           IN /\ r.state[ConfigOf(l).parent_id].is_occupied
              /\ r.state[l].is_occupied
              /\ \E i \in 1..Len(r.evals) :
                    /\ r.evals[i].location_id = l
                    /\ r.evals[i].event = NoEvent
                    /\ r.evals[i].via = ConfigOf(l).parent_id
                    /\ r.evals[i].changed

\* The position of location l in the iteration order of self.configs.
OrderIndex(l) == CHOOSE i \in 1..Len(ConfigOrder) : ConfigOrder[i] = l

\* C14 (follow-parent children track vacancy): when a call, check_timeouts
\* or handle_event, makes a parent vacant, every UNLOCKED FOLLOW_PARENT
\* child of it that has no holds, no occupants and no own occupied_until
\* later than the call's now is vacant when that call returns, whether the
\* child comes before or after the parent in the configuration list.
C14_ChildrenTrackVacancy ==
    \A c \in Calls :
        LET r == Run(c)
        IN \A l \in ConfigIds :
            LET P == ConfigOf(l).parent_id
            IN (/\ ConfigOf(l).occupancy_strategy = FOLLOW_PARENT
                /\ P # NoParent
                /\ state[P].is_occupied
                /\ ~r.state[P].is_occupied
                /\ state[l].lock_state = UNLOCKED
                /\ state[l].active_holds = {}
                /\ state[l].active_occupants = {}
                /\ ~(state[l].occupied_until # None
                       /\ state[l].occupied_until > c.now))
               => ~r.state[l].is_occupied

\* A sweep vacates a parent and, in the same call, its occupied FOLLOW_PARENT
\* child that precedes it in the configuration list; and a handle_event call
\* (unlocking a parent whose timer has elapsed) vacates a parent and its
\* occupied FOLLOW_PARENT child.
C14_Witness ==
    /\ \E l \in ConfigIds :
        LET P == ConfigOf(l).parent_id
            r == CheckTimeouts(state, now)
        IN /\ ConfigOf(l).occupancy_strategy = FOLLOW_PARENT
           /\ P # NoParent
           /\ OrderIndex(l) < OrderIndex(P)
           /\ state[l].lock_state = UNLOCKED
           /\ state[l].is_occupied
           /\ state[P].is_occupied
           /\ ~r.state[P].is_occupied
           /\ ~r.state[l].is_occupied
    /\ \E c \in Calls, l \in ConfigIds :
        LET P == ConfigOf(l).parent_id
            r == Run(c)
        IN /\ c.op = "handle_event"
           /\ ConfigOf(l).occupancy_strategy = FOLLOW_PARENT
           /\ P # NoParent
           /\ state[l].lock_state = UNLOCKED
           /\ state[l].is_occupied
           /\ state[P].is_occupied
           /\ ~r.state[P].is_occupied
           /\ ~r.state[l].is_occupied

\* The state of the party house after MOMENTARY(kitchen, motion, pir) and
\* LOCK_CHANGE(main_floor), both at 12:00, from default-vacant states.
PartyLocked ==
    LET default == [id \in ConfigIds |-> DefaultState]
        moved == HandleEvent(default,
                     OccupancyEvent("kitchen", MOMENTARY, "motion", "pir", Noon,
                                    NoOccupant, None), Noon).state
    IN HandleEvent(moved,
           OccupancyEvent("main_floor", LOCK_CHANGE, "manual", "user", Noon,
                          NoOccupant, None), Noon).state

\* C15 (party mode, S5): in the party house, after MOMENTARY(kitchen) at
\* 12:00, LOCK_CHANGE(main_floor) at 12:00 and check_timeouts(12:15), kitchen
\* is vacant, main_floor is occupied and LOCKED_FROZEN, living_room is
\* occupied and home is occupied.
C15_PartyMode ==
    (configs = PartyHouse /\ now = Noon /\ state = PartyLocked) =>
        LET after == CheckTimeouts(state, QuarterPast).state
        IN /\ ~after["kitchen"].is_occupied
           /\ after["main_floor"].is_occupied
           /\ after["main_floor"].lock_state = LOCKED_FROZEN
           /\ after["living_room"].is_occupied
           /\ after["home"].is_occupied

\* C16: an INDEPENDENT location never changes state because its parent
\* changed.  In any call its state changes only if the call's event targets
\* it, or a PROPAGATED event from one of its children is evaluated on it,
\* or the call is check_timeouts and its own occupied_until has elapsed; and
\* it never receives a re-evaluation tick from its parent.
C16_IndependentIgnoresParent ==
    \A c \in Calls :
        LET r == Run(c)
        IN \A L \in ConfigIds :
            ConfigOf(L).occupancy_strategy = INDEPENDENT =>
                /\ r.state[L] # state[L] =>
                    \/ c.op = "handle_event" /\ c.event.location_id = L
                    \/ \E i \in 1..Len(r.evals) :
                          /\ r.evals[i].location_id = L
                          /\ r.evals[i].event # NoEvent
                          /\ r.evals[i].event.event_type = PROPAGATED
                          /\ ConfigOf(r.evals[i].via).parent_id = L
                    \/ /\ c.op = "check_timeouts"
                       /\ state[L].occupied_until # None
                       /\ state[L].occupied_until <= c.now
                /\ \A i \in 1..Len(r.evals) :
                      (r.evals[i].location_id = L /\ r.evals[i].event = NoEvent)
                          => r.evals[i].via = ""

\* A call makes an occupied parent vacant; its FOLLOW_PARENT child changes
\* in the same call, while its occupied, unlocked INDEPENDENT child, whose
\* own timer is still running, stays as it is.
C16_Witness ==
    \E c \in Calls, L \in ConfigIds, F \in ConfigIds :
        LET P == ConfigOf(L).parent_id
            r == Run(c)
        IN /\ P # NoParent
           /\ ConfigOf(L).occupancy_strategy = INDEPENDENT
           /\ ConfigOf(F).occupancy_strategy = FOLLOW_PARENT
           /\ ConfigOf(F).parent_id = P
           /\ state[L].lock_state = UNLOCKED
           /\ state[L].is_occupied
           /\ state[P].is_occupied
           /\ ~r.state[P].is_occupied
           /\ r.state[F] # state[F]
           /\ r.state[L] = state[L]

\* The locations that have neither a hold nor an occupant, and a timer.
Unheld ==
    {l \in ConfigIds : /\ state[l].active_holds = {}
                       /\ state[l].active_occupants = {}
                       /\ state[l].occupied_until # None}

\* C17 as claimed: the next_expiration returned by every call is the
\* earliest occupied_until over all locations without hold and occupant,
\* and is absent exactly when no such location has an occupied_until.
C17_EarliestTimer ==
    op # "init" =>
        /\ next_expiration = None <=> Unheld = {}
        /\ next_expiration # None =>
              /\ \E l \in Unheld : state[l].occupied_until = next_expiration
              /\ \A l \in Unheld : next_expiration <= state[l].occupied_until

\* C17 amended: the next_expiration returned by every call is the earliest
\* occupied_until that is later than the call's now, over all locations
\* without hold and occupant, and is absent exactly when no such location
\* has an occupied_until later than now; a location with a hold or an
\* occupant, or with an occupied_until that is not later than now, never
\* contributes.
C17_EarliestFutureTimer ==
    op # "init" =>
        LET future == {l \in Unheld : state[l].occupied_until > now}
        IN /\ next_expiration = None <=> future = {}
           /\ next_expiration # None =>
                 /\ \E l \in future : state[l].occupied_until = next_expiration
                 /\ \A l \in future : next_expiration <= state[l].occupied_until

\* A call has returned a next_expiration while a location with a hold has a
\* running timer that ends earlier, and another location, without hold and
\* occupant, has a later timer than the one returned.
C17_Witness ==
    /\ op # "init"
    /\ next_expiration # None
    /\ \E h \in ConfigIds :
        /\ state[h].active_holds # {}
        /\ state[h].occupied_until # None
        /\ state[h].occupied_until > now
        /\ state[h].occupied_until < next_expiration
    /\ \E l \in Unheld : state[l].occupied_until = next_expiration

\* The number of transitions a call emitted for location l.
TransitionsFor(eng, l) ==
    Cardinality({i \in 1..Len(eng.transitions) :
                    eng.transitions[i].location_id = l})

\* The handle_event calls that target a LOCKED_FROZEN location with a MANUAL
\* event whose duration, or else category timeout, is positive.
ManualOnLocked ==
    {c \in Calls :
        /\ c.op = "handle_event"
        /\ c.event.event_type = MANUAL
        /\ c.event.location_id \in ConfigIds
        /\ state[c.event.location_id].lock_state = LOCKED_FROZEN
        /\ TimeoutDelta(c.event, c.event.location_id) > 0}

\* C18 as claimed: a MANUAL event with positive duration or timeout on a
\* LOCKED_FROZEN location leaves it occupied with occupied_until at least
\* the derived expiry, emits exactly one transition for it, and leaves its
\* lock_state LOCKED_FROZEN.
C18_ManualOnLocked_AsClaimed ==
    \A c \in ManualOnLocked :
        LET r == Run(c)
            L == c.event.location_id
        IN /\ r.state[L].is_occupied
           /\ r.state[L].occupied_until # None
           /\ r.state[L].occupied_until >= c.now + TimeoutDelta(c.event, L)
           /\ TransitionsFor(r, L) = 1
           /\ r.state[L].lock_state = LOCKED_FROZEN

\* C18 amended: such an event is accepted.  The location is occupied when
\* the call returns and its lock_state is still LOCKED_FROZEN; its
\* occupied_until is the later of its previous value and the derived
\* expiry, except that it is absent when the location follows an occupied
\* parent that has holds or occupants; exactly one transition is emitted
\* for it when its state changed, and none when the event changed nothing
\* (it was already occupied with an occupied_until not earlier than the
\* derived expiry).
C18_ManualOnLocked ==
    \A c \in ManualOnLocked :
        LET r == Run(c)
            L == c.event.location_id
            d == c.now + TimeoutDelta(c.event, L)
            u == state[L].occupied_until
        IN /\ r.state[L].is_occupied
           /\ r.state[L].lock_state = LOCKED_FROZEN
           /\ IF /\ FollowsOccupiedParent(state, ConfigOf(L))
                 /\ ParentIsHeld(state, ConfigOf(L))
              THEN r.state[L].occupied_until = None
              ELSE r.state[L].occupied_until = (IF u # None /\ u > d THEN u ELSE d)
           /\ TransitionsFor(r, L) = (IF r.state[L] # state[L] THEN 1 ELSE 0)
           /\ r.state[L] = state[L] =>
                 state[L].is_occupied /\ (u = None \/ u >= d)

\* A vacant LOCKED_FROZEN location receives a MANUAL event with an explicit
\* duration: it becomes occupied until the derived expiry, stays locked and
\* gets one transition.
C18_Witness ==
    \E c \in ManualOnLocked :
        LET r == Run(c)
            L == c.event.location_id
        IN /\ c.event.duration = LongDuration
           /\ ~state[L].is_occupied
           /\ r.state[L].is_occupied
           /\ r.state[L].occupied_until = c.now + LongDuration
           /\ r.state[L].lock_state = LOCKED_FROZEN
           /\ TransitionsFor(r, L) = 1

\* C19: handle_event with an event whose location_id is not configured
\* evaluates nothing, leaves the whole state map unchanged, returns no
\* transitions, and returns the next_expiration that the unchanged state
\* yields at the call's now.
C19_UnknownLocationIgnored ==
    \A c \in Calls :
        (c.op = "handle_event" /\ c.event.location_id \notin ConfigIds) =>
            LET r == Run(c)
            IN /\ r.state = state
               /\ r.transitions = <<>>
               /\ r.evals = <<>>
               /\ DOMAIN r.state = ConfigIds
               /\ CalculateNextExpiration(r.state, c.now)
                     = CalculateNextExpiration(state, c.now)

\* An event for an unconfigured location arrives while a configured
\* location is occupied with a running timer, which is what the call
\* returns as next_expiration.
C19_Witness ==
    \E c \in Calls, l \in ConfigIds :
        /\ c.op = "handle_event"
        /\ c.event.location_id \notin ConfigIds
        /\ state[l].is_occupied
        /\ state[l].occupied_until # None
        /\ state[l].occupied_until > c.now
        /\ CalculateNextExpiration(Run(c).state, c.now) = state[l].occupied_until

\* C20: construction fails when two configs share an id or when a parent_id
\* names a location that is not configured, so every engine that exists has
\* unique ids and known parents, and no call ends because propagation
\* reached an unknown parent id.
C20_ConstructionValidates ==
    /\ \A i, j \in 1..Len(configs) : configs[i].id = configs[j].id => i = j
    /\ \A i \in 1..Len(configs) :
          configs[i].parent_id # NoParent => configs[i].parent_id \in ConfigIds
    /\ op # "KeyError"

\* C21 as claimed (idempotence): for every reachable state, every event of
\* any kind and every now, the state map after handle_event(e, now) twice
\* equals the state map after handle_event(e, now) once.
C21_Idempotent_AnyKind ==
    \A c \in Calls :
        c.op = "handle_event" =>
            LET once == Run(c).state
            IN HandleEvent(once, c.event, c.now).state = once

\* C21 amended: the same for every event that is not a LOCK_CHANGE; a
\* LOCK_CHANGE is a toggle, and applying it twice restores the lock_state
\* the location had before the first application.
C21_Idempotent ==
    \A c \in Calls :
        c.op = "handle_event" =>
            LET once == Run(c).state
                twice == HandleEvent(once, c.event, c.now).state
            IN IF c.event.event_type # LOCK_CHANGE
               THEN twice = once
               ELSE \A l \in ConfigIds :
                      twice[l].lock_state = state[l].lock_state

\* An event that releases the last hold of a location changes its state,
\* and applying it a second time changes nothing; so does a pulse that
\* changes the target and, by propagation, its parent.
C21_Witness ==
    /\ \E c \in Calls :
        /\ c.op = "handle_event"
        /\ c.event.event_type = HOLD_END
        /\ c.event.location_id \in ConfigIds
        /\ state[c.event.location_id].active_holds = {c.event.source_id}
        /\ LET once == Run(c).state
           IN /\ once # state
              /\ once[c.event.location_id].active_holds = {}
              /\ HandleEvent(once, c.event, c.now).state = once
    /\ \E c \in Calls :
        /\ c.op = "handle_event"
        /\ c.event.event_type = MOMENTARY
        /\ c.event.location_id \in ConfigIds
        /\ ConfigOf(c.event.location_id).parent_id # NoParent
        /\ LET once == Run(c)
           IN /\ ConfigOf(c.event.location_id).parent_id \in Emitted(once)
              /\ HandleEvent(once.state, c.event, c.now).state = once.state

\* The state map of a freshly constructed engine with the same configs.
Fresh == [id \in ConfigIds |-> DefaultState]

\* No location is locked and no occupied_until is earlier than now.
NothingLockedOrElapsed ==
    \A l \in ConfigIds :
        /\ state[l].lock_state = UNLOCKED
        /\ state[l].occupied_until # None => state[l].occupied_until >= now

Entries(snapshot) ==
    {snapshot[i] : i \in {j \in 1..Len(snapshot) : snapshot[j].loc_id \in ConfigIds}}

\* The entry carries occupants or holds.
Carries(data) ==
    \/ Get(data, "active_occupants", <<>>) # <<>>
    \/ Get(data, "active_holds", <<>>) # <<>>

\* C23 (restore rule R-B): when restore_state returns, a location whose
\* snapshot entry is not LOCKED_FROZEN and carries occupants or holds has
\* those sets, is occupied and has no occupied_until, whatever is_occupied
\* and occupied_until the entry carried and whatever now is.
C23_RuleB ==
    \A r \in Restores :
        LET eng == RestoreState(state, r.snapshot, r.now)
        IN ~eng.raised =>
            \A e \in Entries(r.snapshot) :
                (Get(e.data, "lock_state", UNLOCKED) # LOCKED_FROZEN /\ Carries(e.data))
                => /\ eng.state[e.loc_id].active_occupants
                        = ListToSet(Get(e.data, "active_occupants", <<>>))
                   /\ eng.state[e.loc_id].active_holds
                        = ListToSet(Get(e.data, "active_holds", <<>>))
                   /\ eng.state[e.loc_id].is_occupied
                   /\ eng.state[e.loc_id].occupied_until = None

\* The entry is UNLOCKED with empty active_occupants and active_holds.
Unlatched(data) ==
    /\ Get(data, "lock_state", UNLOCKED) = UNLOCKED
    /\ ~Carries(data)

\* The text of an entry's occupied_until denotes the instant u.
Denotes(data, u) ==
    /\ "occupied_until" \in DOMAIN data
    /\ data.occupied_until = IsoFormat(u)

\* The entry has a readable occupied_until before t.
ElapsedAt(data, t) == \E u \in 0..(t - 1) : Denotes(data, u)

\* The entry as a state, with an unreadable or missing occupied_until absent.
Verbatim(data) ==
    LocationRuntimeState(
        Get(data, "is_occupied", FALSE),
        IF \E u \in 0..MaxTime : Denotes(data, u)
        THEN CHOOSE u \in 0..MaxTime : Denotes(data, u) ELSE None,
        ListToSet(Get(data, "active_occupants", <<>>)),
        ListToSet(Get(data, "active_holds", <<>>)),
        Get(data, "lock_state", UNLOCKED))

\* The first half of rule R-C, for the entries of the restore r.
RuleC(r, eng) ==
    \A e \in Entries(r.snapshot) :
        Unlatched(e.data) =>
            eng.state[e.loc_id] = IF ElapsedAt(e.data, r.now) THEN DefaultState
                                  ELSE Verbatim(e.data)

\* C24 as claimed (restore rule R-C): when restore_state(snapshot, now)
\* returns, an UNLOCKED entry without occupants and holds is default-vacant
\* if its occupied_until is before now and verbatim otherwise, and no
\* restored location that is unlocked and not held is occupied with an
\* occupied_until that is not strictly after now.
C24_RuleC_StrictlyAfter ==
    \A r \in Restores :
        LET eng == RestoreState(state, r.snapshot, r.now)
        IN ~eng.raised =>
            /\ RuleC(r, eng)
            /\ \A e \in Entries(r.snapshot) :
                LET st == eng.state[e.loc_id]
                IN (/\ st.lock_state = UNLOCKED
                    /\ st.active_holds = {} /\ st.active_occupants = {}
                    /\ st.is_occupied /\ st.occupied_until # None)
                   => st.occupied_until > r.now

\* C24 amended: the same first half; and no restored location that is
\* unlocked and not held is occupied with an occupied_until earlier than
\* now, while an entry saved occupied whose occupied_until equals now is
\* restored occupied with that timer.
C24_RuleC ==
    \A r \in Restores :
        LET eng == RestoreState(state, r.snapshot, r.now)
        IN ~eng.raised =>
            /\ RuleC(r, eng)
            /\ \A e \in Entries(r.snapshot) :
                LET st == eng.state[e.loc_id]
                IN /\ (/\ st.lock_state = UNLOCKED
                       /\ st.active_holds = {} /\ st.active_occupants = {}
                       /\ st.is_occupied /\ st.occupied_until # None)
                      => st.occupied_until >= r.now
                   /\ (/\ Unlatched(e.data)
                       /\ Get(e.data, "is_occupied", FALSE)
                       /\ Denotes(e.data, r.now))
                      => st.is_occupied /\ st.occupied_until = r.now

\* A file saved by export_state with a running timer is restored after
\* the timer elapsed and the location becomes default-vacant; restored at
\* the instant of the timer it is occupied with it.
C24_Witness ==
    /\ op = "restore_state"
    /\ \E l \in ConfigIds :
        /\ state[l].is_occupied
        /\ state[l].occupied_until = now
        /\ Unlatched(ExportEntry(state[l]))
        /\ \E t \in Times :
            /\ t > now
            /\ RestoreState(Fresh, ExportState(state), t).state[l] = DefaultState
        /\ RestoreState(Fresh, ExportState(state), now).state[l] = state[l]

\* C25 (restore rule R-A takes precedence): when restore_state returns, a
\* location whose snapshot entry is LOCKED_FROZEN has exactly the entry's
\* is_occupied, occupied_until, occupants, holds and lock_state, for every
\* now, also when the occupied_until is past and when the entry carries
\* occupants or holds.
C25_RuleA ==
    \A r \in Restores :
        LET eng == RestoreState(state, r.snapshot, r.now)
        IN ~eng.raised =>
            \A e \in Entries(r.snapshot) :
                Get(e.data, "lock_state", UNLOCKED) = LOCKED_FROZEN
                    => eng.state[e.loc_id] = Verbatim(e.data)

\* A restored location is locked and vacant although it has a hold, its
\* timer has elapsed, and restoring its export later returns it as it is.
C25_Witness ==
    /\ op = "restore_state"
    /\ now = MaxTime
    /\ \E l \in ConfigIds :
        /\ state[l].lock_state = LOCKED_FROZEN
        /\ ~state[l].is_occupied
        /\ state[l].active_holds # {}
        /\ state[l].occupied_until # None
        /\ state[l].occupied_until < now
        /\ RestoreState(Fresh, ExportState(state), now).state[l] = state[l]

\* The lock_state string of the entry is no value of LockState.
UnknownLock(data) == Get(data, "lock_state", UNLOCKED) \notin {UNLOCKED, LOCKED_FROZEN}

\* C26 (unknown lock_state): a restore_state whose snapshot has an entry
\* with a lock_state string other than "unlocked" and "locked_frozen"
\* raises nothing, leaves the location of that entry as it was, and
\* restores every other entry, before and after it, as it would alone.
C26_UnknownLockSkipped ==
    \A r \in Restores :
        LET eng == RestoreState(state, r.snapshot, r.now)
        IN (\E e \in Entries(r.snapshot) : UnknownLock(e.data)) =>
            /\ ~eng.raised
            /\ \A e \in Entries(r.snapshot) :
                eng.state[e.loc_id] =
                    IF UnknownLock(e.data) THEN state[e.loc_id]
                    ELSE RestoreState(state, <<e>>, r.now).state[e.loc_id]

\* The location ids that are keys of the snapshot.
Keys(snapshot) == {snapshot[i].loc_id : i \in 1..Len(snapshot)}

\* C27 (frame of restore_state): whether or not the call raises, the state
\* map has an entry for exactly the configured locations afterwards, and a
\* configured location that is no key of the snapshot keeps its state; in
\* a freshly constructed engine it stays default-vacant.
C27_RestoreFrame ==
    \A r \in Restores :
        LET eng == RestoreState(state, r.snapshot, r.now)
            fresh == RestoreState(Fresh, r.snapshot, r.now)
        IN /\ DOMAIN eng.state = ConfigIds
           /\ \A l \in ConfigIds \ Keys(r.snapshot) :
                /\ eng.state[l] = state[l]
                /\ fresh.state[l] = DefaultState

\* One location is not in its default state; a file with an entry for an
\* unknown id and an entry for the other location changes that other
\* location only.
C27_Witness ==
    /\ op = "restore_state"
    /\ \E l \in ConfigIds :
        /\ state[l] # DefaultState
        /\ \E r \in Restores :
            LET eng == RestoreState(state, r.snapshot, r.now)
            IN /\ Unknown \in Keys(r.snapshot)
               /\ l \notin Keys(r.snapshot)
               /\ eng.state # state
               /\ eng.state[l] = state[l]

\* C28 (export keys): export_state has a key for a location exactly when
\* the location's state differs from the default state (vacant, UNLOCKED,
\* no occupants, no holds, no timer), each key once; a freshly constructed
\* engine exports the empty mapping.
C28_ExportKeys ==
    LET snapshot == ExportState(state)
    IN /\ \A l \in ConfigIds : l \in Keys(snapshot) <=> state[l] # DefaultState
       /\ Keys(snapshot) \subseteq ConfigIds
       /\ Cardinality(Keys(snapshot)) = Len(snapshot)
       /\ ExportState(Fresh) = <<>>

\* export_state is called while one location is vacant and without timer,
\* occupants and holds but LOCKED_FROZEN, and the other is in the default
\* state: the export has the locked location as its only key.
C28_Witness ==
    /\ op = "export_state"
    /\ \E l \in ConfigIds :
        /\ state[l] = LocationRuntimeState(FALSE, None, {}, {}, LOCKED_FROZEN)
        /\ Keys(ExportState(state)) = {l}
        /\ \E m \in ConfigIds : state[m] = DefaultState

\* C29 (timestamp base): when handle_event(e, now) is called with
\* e.timestamp different from now on an unlocked location, a MANUAL or
\* MOMENTARY event on a location without timer sets occupied_until to
\* e.timestamp + delta, and a HOLD_END that releases the last hold sets
\* it to e.timestamp + delta.
C29_ExpiryFromTimestamp ==
    \A c \in Calls :
        (/\ c.op = "handle_event"
         /\ c.event.location_id \in ConfigIds
         /\ c.event.timestamp # c.now
         /\ state[c.event.location_id].lock_state = UNLOCKED)
        => LET l == c.event.location_id
               after == Run(c).state[l]
               expiry == c.event.timestamp + TimeoutDelta(c.event, l)
           IN /\ (/\ c.event.event_type \in {MANUAL, MOMENTARY}
                  /\ state[l].occupied_until = None)
                 => after.occupied_until = expiry
              /\ (/\ c.event.event_type = HOLD_END
                  /\ state[l].active_holds = {c.event.source_id})
                 => after.occupied_until = expiry

\* The HOLD_END calls on a configured, unlocked location.
HoldEnds ==
    {c \in Calls : /\ c.op = "handle_event"
                   /\ c.event.event_type = HOLD_END
                   /\ c.event.location_id \in ConfigIds
                   /\ state[c.event.location_id].lock_state = UNLOCKED}

\* The call releases the last hold of its location.
ReleasesLastHold(c) ==
    state[c.event.location_id].active_holds = {c.event.source_id}

UnderHeldParent ==
    {l \in ConfigIds :
        /\ state[l].lock_state = UNLOCKED
        /\ ConfigOf(l).occupancy_strategy = FOLLOW_PARENT
        /\ ConfigOf(l).parent_id \in ConfigIds
        /\ LET parent == state[ConfigOf(l).parent_id]
           IN /\ parent.is_occupied
              /\ parent.active_holds # {} \/ parent.active_occupants # {}}

\* C31 (follow a held parent): after every handle_event and check_timeouts
\* call from default-vacant states, every UNLOCKED FOLLOW_PARENT location
\* whose parent is occupied with holds or occupants is occupied and has no
\* occupied_until.
C31_InheritsIndefinite ==
    \A l \in UnderHeldParent :
        /\ state[l].is_occupied
        /\ state[l].occupied_until = None

\* A location follows a parent that is occupied by an occupant only, and
\* a pulse of the location's own sensor leaves it without occupied_until.
C31_Witness ==
    /\ op = "handle_event"
    /\ \E l \in UnderHeldParent :
        /\ state[ConfigOf(l).parent_id].active_holds = {}
        /\ \E c \in Calls :
            /\ c.op = "handle_event"
            /\ c.event.location_id = l
            /\ c.event.event_type = MOMENTARY
            /\ Run(c).state[l].is_occupied
            /\ Run(c).state[l].occupied_until = None

\* The handle_event calls that carry an occupant_id to a configured,
\* unlocked location.
IdentityCalls ==
    {c \in Calls : /\ c.op = "handle_event"
                   /\ c.event.location_id \in ConfigIds
                   /\ c.event.occupant_id # NoOccupant
                   /\ state[c.event.location_id].lock_state = UNLOCKED}

\* C32 (identity departure): a HOLD_END carrying occupant X on an occupied
\* unlocked location removes exactly X from active_occupants and exactly
\* its source_id from active_holds, and while another occupant or hold
\* remains the location stays occupied with no occupied_until; every other
\* event carrying X adds X and keeps the occupants already there.
C32_IdentityDeparture ==
    \A c \in IdentityCalls :
        LET l == c.event.location_id
            after == Run(c).state[l]
        IN IF c.event.event_type = HOLD_END
           THEN state[l].is_occupied =>
                /\ after.active_occupants = state[l].active_occupants \ {c.event.occupant_id}
                /\ after.active_holds = state[l].active_holds \ {c.event.source_id}
                /\ (after.active_occupants # {} \/ after.active_holds # {})
                   => after.is_occupied /\ after.occupied_until = None
           ELSE after.active_occupants
                    = state[l].active_occupants \cup {c.event.occupant_id}

IsTick(e) == e.event = NoEvent /\ e.via # ""

\* Evaluation e is the PROPAGATED event sent up by the changed child x.
IsUpwardFrom(e, x) ==
    /\ e.event # NoEvent
    /\ e.event.event_type = PROPAGATED
    /\ e.via = x
    /\ e.location_id = ConfigOf(x).parent_id

\* The evaluations of location x before position j that changed x.
ChangesBefore(evals, x, j) ==
    {i \in 1..(j - 1) : evals[i].location_id = x /\ evals[i].changed}

\* C34 (upward before downward): within one handle_event call, when an
\* evaluation changes a location that then propagates, the very next
\* evaluation is the PROPAGATED event on its parent; a tick on a
\* FOLLOW_PARENT child comes only after a change of its parent and after
\* the upward evaluation that change caused, and it reads the state its
\* parent committed last.
C34_UpwardBeforeDownward ==
    \A c \in Calls :
        c.op = "handle_event" =>
            LET evals == Run(c).evals
            IN \A j \in 1..Len(evals) :
                LET e == evals[j]
                    x == e.location_id
                IN /\ (e.changed /\ ShouldPropagate(ConfigOf(x), e.after))
                      => /\ j < Len(evals)
                         /\ IsUpwardFrom(evals[j + 1], x)
                         /\ evals[j + 1].before[x] = e.after
                   /\ IsTick(e)
                      => /\ ConfigOf(x).parent_id = e.via
                         /\ ConfigOf(x).occupancy_strategy = FOLLOW_PARENT
                         /\ ChangesBefore(evals, e.via, j) # {}
                         /\ \A i \in ChangesBefore(evals, e.via, j) :
                               ShouldPropagate(ConfigOf(e.via), evals[i].after)
                                   => i + 1 < j
                         /\ \E i \in ChangesBefore(evals, e.via, j) :
                               /\ \A k \in ChangesBefore(evals, e.via, j) : k <= i
                               /\ e.before[e.via] = evals[i].after

\* A pulse on the vacant floor of a vacant home: the transitions returned
\* are the floor's, then the home's, then the loft's, and the loft's tick
\* saw both the floor and the home already occupied.
C34_Witness ==
    \E c \in Calls :
        /\ c.op = "handle_event"
        /\ c.event.location_id = "floor"
        /\ c.event.event_type = MOMENTARY
        /\ LET r == Run(c)
           IN /\ Len(r.transitions) = 3
              /\ r.transitions[1].location_id = "floor"
              /\ r.transitions[2].location_id = "home"
              /\ r.transitions[3].location_id = "loft"
              /\ \E j \in 1..Len(r.evals) :
                    /\ IsTick(r.evals[j])
                    /\ r.evals[j].location_id = "loft"
                    /\ r.evals[j].before["floor"].is_occupied
                    /\ r.evals[j].before["home"].is_occupied
                    /\ r.evals[j].changed

\* The positions of the evaluations of location l in a call's log.
EvaluationsOf(evals, l) == {i \in 1..Len(evals) : evals[i].location_id = l}

\* C35 (propagation terminates): every handle_event and check_timeouts
\* call, from every reachable state, returns after finitely many
\* evaluations: no location is evaluated more than twice, so a call makes
\* at most two evaluations, and at most two commits, per location.
C35_Terminates ==
    \A c \in Calls :
        LET r == Run(c)
        IN /\ ~r.raised
           /\ \A l \in ConfigIds : Cardinality(EvaluationsOf(r.evals, l)) <= 2
           /\ Len(r.evals) <= 2 * Cardinality(ConfigIds)
           /\ Len(r.transitions) <= Len(r.evals)

\* A pulse on the loft, which follows the floor and contributes to it:
\* the loft is evaluated for the event and again by the tick its changed
\* parent sends down, the floor and the home once each, and the call
\* returns.
C35_Witness ==
    \E c \in Calls :
        /\ c.op = "handle_event"
        /\ c.event.location_id = "loft"
        /\ LET r == Run(c)
           IN /\ Cardinality(EvaluationsOf(r.evals, "loft")) = 2
              /\ \E i \in EvaluationsOf(r.evals, "loft") : IsTick(r.evals[i])
              /\ EvaluationsOf(r.evals, "floor") # {}
              /\ EvaluationsOf(r.evals, "home") # {}
              /\ Len(r.transitions) >= 3

\* The duration the claim prescribes for an event on location l: the
\* explicit duration whenever one is given, else the timeout of the
\* category, else the 'default' timeout, else 10 minutes.
ClaimedDelta(ev, l) ==
    IF ev.duration # None THEN ev.duration
    ELSE IF ev.category \in DOMAIN ConfigOf(l).timeouts
    THEN ConfigOf(l).timeouts[ev.category]
    ELSE IF "default" \in DOMAIN ConfigOf(l).timeouts
    THEN ConfigOf(l).timeouts["default"]
    ELSE 10

\* The MANUAL and MOMENTARY calls on a location in its default state that
\* follows no occupied parent.
FirstPulses ==
    {c \in Calls : /\ c.op = "handle_event"
                   /\ c.event.event_type \in {MANUAL, MOMENTARY}
                   /\ c.event.occupant_id = NoOccupant
                   /\ c.event.location_id \in ConfigIds
                   /\ state[c.event.location_id] = DefaultState
                   /\ ~FollowsOccupiedParent(state, ConfigOf(c.event.location_id))}

\* C36 (duration of an event): a MANUAL or MOMENTARY event on a default
\* location makes it occupied until now + delta, where delta is the
\* explicit duration whenever one is given, zero included, and else the
\* category, 'default' or 10-minute timeout; with a delta of zero the
\* location is not occupied.
C36_ExplicitDuration ==
    \A c \in FirstPulses :
        LET l == c.event.location_id
            after == Run(c).state[l]
            delta == ClaimedDelta(c.event, l)
        IN IF delta > 0
           THEN after.is_occupied /\ after.occupied_until = c.now + delta
           ELSE ~after.is_occupied

\* The LOCK_CHANGE calls without occupant_id on a configured location.
LockChanges ==
    {c \in Calls : /\ c.op = "handle_event"
                   /\ c.event.event_type = LOCK_CHANGE
                   /\ c.event.occupant_id = NoOccupant
                   /\ c.event.location_id \in ConfigIds}

\* C37 as claimed (LOCK_CHANGE changes the lock only): after a LOCK_CHANGE
\* without occupant_id the target's is_occupied, occupied_until,
\* active_holds and active_occupants are what they were, when locking and
\* when unlocking, for every now.
C37_LockOnly_EveryNow ==
    \A c \in LockChanges :
        LET l == c.event.location_id
            after == Run(c).state[l]
        IN /\ after.lock_state # state[l].lock_state
           /\ after.is_occupied = state[l].is_occupied
           /\ after.occupied_until = state[l].occupied_until
           /\ after.active_holds = state[l].active_holds
           /\ after.active_occupants = state[l].active_occupants

\* C37 amended: a LOCK_CHANGE without occupant_id toggles the target's
\* lock_state and re-evaluates its occupancy at now.  The target is
\* occupied afterwards exactly if it has a hold, an occupant, an
\* occupied_until after now, or follows an occupied parent; if so its
\* holds and occupants are unchanged and so is its occupied_until, unless
\* it follows an occupied parent with holds or occupants, which clears it;
\* if not, it is vacant with no timer, holds or occupants.
C37_LockAndReevaluate ==
    \A c \in LockChanges :
        LET l == c.event.location_id
            before == state[l]
            after == Run(c).state[l]
            follows == /\ ConfigOf(l).occupancy_strategy = FOLLOW_PARENT
                       /\ ConfigOf(l).parent_id \in ConfigIds
                       /\ state[ConfigOf(l).parent_id].is_occupied
            held == /\ follows
                    /\ \/ state[ConfigOf(l).parent_id].active_holds # {}
                       \/ state[ConfigOf(l).parent_id].active_occupants # {}
        IN /\ after.lock_state # before.lock_state
           /\ after.is_occupied <=>
                \/ before.active_holds # {}
                \/ before.active_occupants # {}
                \/ before.occupied_until # None /\ before.occupied_until > c.now
                \/ follows
           /\ IF after.is_occupied
              THEN /\ after.active_holds = before.active_holds
                   /\ after.active_occupants = before.active_occupants
                   /\ after.occupied_until = IF held THEN None ELSE before.occupied_until
              ELSE /\ after.active_holds = {}
                   /\ after.active_occupants = {}
                   /\ after.occupied_until = None

\* A location was frozen while occupied by a timer: unlocking it before
\* the timer ends changes lock_state only, unlocking it when the timer has
\* elapsed makes it vacant and clears the timer.
C37_Witness ==
    \E l \in ConfigIds :
        /\ state[l].lock_state = LOCKED_FROZEN
        /\ state[l].is_occupied
        /\ state[l].occupied_until # None
        /\ \E c \in LockChanges :
            /\ c.event.location_id = l
            /\ Run(c).state[l] = [state[l] EXCEPT !.lock_state = UNLOCKED]
        /\ \E c \in LockChanges :
            /\ c.event.location_id = l
            /\ c.now >= state[l].occupied_until
            /\ Run(c).state[l] = DefaultState

\* C38 (hierarchy consistency): after every handle_event and
\* check_timeouts call from default-vacant states, whenever a location
\* with contributes_to_parent = true is occupied and its parent is
\* UNLOCKED, the parent is occupied too.
C38_HierarchyConsistent ==
    \A l \in ConfigIds :
        (/\ ConfigOf(l).contributes_to_parent
         /\ ConfigOf(l).parent_id \in ConfigIds
         /\ state[l].is_occupied
         /\ state[ConfigOf(l).parent_id].lock_state = UNLOCKED)
        => state[ConfigOf(l).parent_id].is_occupied

\* Location l is UNLOCKED, has no holds and no occupants and is not
\* following an occupied parent: nothing but a timer can keep it occupied.
OnTimerOnly(l) ==
    /\ l \in ConfigIds
    /\ state[l].lock_state = UNLOCKED
    /\ state[l].active_holds = {}
    /\ state[l].active_occupants = {}
    /\ ~FollowsOccupiedParent(state, ConfigOf(l))

\* Every location that only a timer can keep occupied is vacant.
Settled == \A l \in ConfigIds : OnTimerOnly(l) => ~state[l].is_occupied

\* After the events have stopped, the locations that only a timer can keep
\* occupied are eventually all vacant.
EventuallyVacant == (op = "idle") ~> Settled

\* The instants from now to one minute after the last timer the engine
\* holds: a sweep later than that does what the sweep at the last one does.
LaterInstants ==
    LET instants == {now} \cup {state[l].occupied_until : l \in ConfigIds}
        last == CHOOSE x \in instants : \A y \in instants : y <= x
    IN now..(last + 1)

\* The engine has returned no next_expiration: a check_timeouts call at
\* any later instant emits no transition.
AbsentMeansSettled ==
    (op \in {"handle_event", "check_timeouts", "idle"} /\ next_expiration = None)
        => \A t \in LaterInstants :
               CheckTimeouts(state, t).transitions = <<>>

Sweeps == {c \in Calls : c.op = "check_timeouts"}

\* State after is state before with no location gone from vacant to
\* occupied and no occupied_until set or moved to a later instant.
NothingGained(before, after) ==
    /\ ~before.is_occupied => ~after.is_occupied
    /\ after.occupied_until # None =>
           /\ before.occupied_until # None
           /\ after.occupied_until <= before.occupied_until

\* C40: from default-vacant states, check_timeouts, at every now and for
\* every configuration order, never makes a location go from vacant to
\* occupied and never extends an occupied_until: every transition it emits
\* starts from an occupied state and either makes the location vacant or
\* leaves it occupied with no later timer.
C40_SweepOnlyReleases ==
    \A c \in Sweeps :
        LET r == Run(c)
        IN /\ \A l \in ConfigIds : NothingGained(state[l], r.state[l])
           /\ \A i \in 1..Len(r.transitions) :
                /\ r.transitions[i].previous_state.is_occupied
                /\ NothingGained(r.transitions[i].previous_state,
                                 r.transitions[i].new_state)

\* A sweep vacates a location and, through the downward tick, its
\* follower: it emits two transitions, each out of an occupied state into
\* the vacant one, and sets no timer anywhere.
C40_Witness ==
    \E c \in Sweeps :
        LET r == Run(c)
        IN /\ Len(r.transitions) >= 2
           /\ \E i \in 1..Len(r.evals) : IsTick(r.evals[i]) /\ r.evals[i].changed
           /\ \A i \in 1..Len(r.transitions) :
                /\ r.transitions[i].previous_state.is_occupied
                /\ ~r.transitions[i].new_state.is_occupied
           /\ \A l \in ConfigIds : NothingGained(state[l], r.state[l])

====
